---- MODULE Spec2Model ----
(***************************************************************************)
(* Model of game/engine.py: Engine.loop, load, boot, pre_tick, tick,       *)
(* post_tick and shutdown, with the client threads (take_turn, team_name)  *)
(* as concurrent processes.                                                *)
(*                                                                         *)
(* Time is counted in units; UnitsPerSecond units make one wall-clock      *)
(* second, so datetime.microsecond is the clock value modulo               *)
(* UnitsPerSecond.  The engine's own statements take no time; time passes  *)
(* only while the engine is blocked in Thread.join.                        *)
(***************************************************************************)
EXTENDS Integers, Sequences, FiniteSets, TLC

\* ---- bounds of the model ------------------------------------------------
MaxClients == 2          \* at most this many client files in CLIENT_DIRECTORY
MAX_TICKS == 2           \* game.config MAX_TICKS

\* ---- program constants ----------------------------------------------------
UnitsPerSecond == 2       \* clock units in one second (1000000 microseconds, scaled)
MAX_SECONDS_PER_TURN == 1 \* game.config MAX_SECONDS_PER_TURN, in clock units

\* Team names a client may declare.  Equal names keep the order of the files
\* (the sort is stable), and each file is functional or not independently, so
\* every arrangement of functional and non-functional clients is reached.
TeamNames == {1}

\* Python None for the client-count settings and for a team name
NotSet == 0 - 1
NoName == 0

NoError == [kind |-> "None", who |-> 0, tick |-> 0]
Err(k, w, t) == [kind |-> k, who |-> w, tick |-> t]

\* Thread.result: None, or the list of actions the client's take_turn returned
NoneResult == [isNone |-> TRUE, actions |-> <<>>]
Produced(c, t) == [isNone |-> FALSE, actions |-> <<[by |-> c, tick |-> t]>>]

VARIABLES
    cfg,            \* client-count settings of game.config
    files,          \* number of client files found in CLIENT_DIRECTORY
    pc,             \* position of the main thread
    clients,        \* Engine.clients: sequence of Player records
    tick_number,    \* Engine.tick_number
    game_over,      \* master_controller.game_over
    boot_i,         \* boot: index of the file being processed
    hs,             \* boot: the CommunicationThread of the current file
    threads,        \* tick: local list `threads` (sequence of Thread objects, by id)
    heap,           \* Thread objects: id -> [alive, result, error]
    units,          \* running take_turn invocations: [slot, owner, tick]
    idx,            \* tick: position in the join loop / inspection loop
    stage,          \* tick: statement of the inspection loop body to execute next
    start_micro,    \* tick: start_time.microsecond
    waited,         \* tick: time spent blocked in thr.join since start_time
    expired,        \* tick: indexes of `threads` whose join returned by timeout
    atStart,        \* tick: files of the clients that were non-functional at tick start
    launched,       \* tick: launched[i] is the file of the client whose take_turn
                    \*       the i-th thread of `threads` runs
    late_result,    \* a take_turn call launched in an earlier tick has ended since
                    \*       the current tick began
    shutdown_calls, \* number of invocations of Engine.shutdown
    logs_writes,    \* number of writes of LOGS_FILE
    results,        \* sequence of the documents written to RESULTS_FILE
    tick_logs,      \* sequence of tick numbers for which a turn log write was started
    exit_status     \* "running", "exit1" (os._exit(1)), "returned", "crashed"

vars == <<cfg, files, pc, clients, tick_number, game_over, boot_i, hs, threads,
          heap, units, idx, stage, start_micro, waited, expired, atStart,
          launched, late_result, shutdown_calls, logs_writes, results, tick_logs, exit_status>>

bootVars == <<boot_i, hs>>
tickVars == <<threads, heap, units, idx, stage, start_micro, waited, expired,
              atStart, launched, late_result>>
outVars == <<shutdown_calls, logs_writes, results, exit_status>>

\* ---- configuration --------------------------------------------------------
Exact(n) == [set |-> n, min |-> NotSet, max |-> NotSet]
Range(lo, hi) == [set |-> NotSet, min |-> lo, max |-> hi]

Configs ==
    { [start |-> Exact(1), cont |-> Exact(1)],
      [start |-> Exact(2), cont |-> Exact(2)],
      [start |-> Range(1, MaxClients), cont |-> Range(1, MaxClients)] }

\* game.utils.validation.verify_num_clients: TRUE iff it returns a violation
verify_num_clients(n, set, min, max) ==
    IF set # NotSet THEN n # set
    ELSE \/ (min # NotSet /\ n < min)
         \/ (max # NotSet /\ n > max)

\* ---- game.utils.thread ------------------------------------------------------
\* CommunicationThread(player.code.team_name): state is "none" (no thread),
\* "running", "done" (value holds the returned name) or "raised" (error set).
\* `late` records that the thread was still running when join(0.01) returned.
NoThread == [state |-> "none", value |-> NoName, late |-> FALSE]
HsOutcomes == {[state |-> "done", value |-> n, late |-> FALSE] : n \in TeamNames}
                  \cup {[state |-> "raised", value |-> NoName, late |-> FALSE]}
HsRunning == [state |-> "running", value |-> NoName, late |-> TRUE]
\* thr.retrieve_value()
retrieve_value(t) == t.value

\* A result slot per position of the list, shared by all ticks
ThreadIdShared(i, t) == <<i, 0>>

\* Thread(func=client.code.take_turn): a fresh object per call
ThreadId(i, t) == <<i, t>>
NewThread == [alive |-> TRUE, result |-> NoneResult, error |-> NoError]
NoHeap == [x \in {} |-> NewThread]
\* what run() leaves in the Thread object when take_turn of `owner` ends
RunOutcomes(owner, t) ==
    { [alive |-> FALSE, result |-> NoneResult, error |-> NoError],
      [alive |-> FALSE, result |-> Produced(owner, t), error |-> NoError],
      [alive |-> FALSE, result |-> NoneResult, error |-> Err("raised", owner, t)] }
\* Thread objects that are still referenced: by the list `threads` or by a
\* running invocation; the others are garbage.
Live(h, ths, us) ==
    [x \in DOMAIN h \cap ({ths[i] : i \in 1..Len(ths)} \cup {u.slot : u \in us}) |-> h[x]]

\* ---- Player ---------------------------------------------------------------
Player(f) ==
    [file |-> f, functional |-> TRUE, error |-> NoError, actions |-> <<>>,
     team_name |-> NoName]

Indexes(s) == 1..Len(s)
func_clients(cs) == {i \in Indexes(cs) : cs[i].functional}

\* list.sort(key=team_name, reverse=True): stable, descending.
RECURSIVE InsertDesc(_, _)
InsertDesc(p, s) ==
    IF s = <<>> THEN <<p>>
    ELSE IF Head(s).team_name < p.team_name THEN <<p>> \o s
         ELSE <<Head(s)>> \o InsertDesc(p, Tail(s))

RECURSIVE SortDesc(_)
SortDesc(s) ==
    IF s = <<>> THEN <<>>
    ELSE InsertDesc(s[Len(s)], SortDesc(SubSeq(s, 1, Len(s) - 1)))

\* Comparing a None team name raises TypeError as soon as a comparison is made
SortRaises(s) == Len(s) >= 2 /\ \E i \in Indexes(s) : s[i].team_name = NoName

\* ---- Engine.shutdown --------------------------------------------------------
\* self.clients[0] raises IndexError on an empty list
ShutdownRaises == cfg.start.set = 1 /\ clients = <<>>

\* shutdown whose fatal path leaves by sys.exit(1): the finally clause of
\* loop() still runs afterwards
shutdown_sys_exit(source, pcReturn, pcRaise) ==
    /\ shutdown_calls' = shutdown_calls + 1
    /\ logs_writes' = logs_writes + 1
    /\ IF ShutdownRaises
       THEN /\ results' = results
            /\ pc' = pcRaise
            /\ exit_status' = IF pcRaise = "crashed" THEN "crashed" ELSE exit_status
       ELSE /\ results' = Append(results, [reason |-> source])
            /\ IF source # ""
               THEN pc' = "finally" /\ exit_status' = exit_status
               ELSE /\ pc' = pcReturn
                    /\ exit_status' = IF pcReturn = "returned" THEN "returned"
                                      ELSE exit_status

\* shutdown(source) called at a point where the caller goes on at pcReturn if
\* it returns and at pcRaise if it raises; source = "" stands for source=None.
shutdown(source, pcReturn, pcRaise) ==
    /\ shutdown_calls' = shutdown_calls + 1
    /\ logs_writes' = logs_writes + 1
    /\ IF ShutdownRaises
       THEN /\ results' = results
            /\ pc' = pcRaise
            /\ exit_status' = IF pcRaise = "crashed" THEN "crashed" ELSE exit_status
       ELSE /\ results' = Append(results, [reason |-> source])
            /\ IF source # ""
               THEN pc' = "exited" /\ exit_status' = "exit1"
               ELSE /\ pc' = pcReturn
                    /\ exit_status' = IF pcReturn = "returned" THEN "returned"
                                      ELSE exit_status

\* ---- Init -----------------------------------------------------------------
Init ==
    /\ cfg \in Configs
    /\ files \in 0..MaxClients
    /\ pc = "load"
    /\ clients = <<>>
    /\ tick_number = 0
    /\ game_over = FALSE
    /\ boot_i = 0
    /\ hs = NoThread
    /\ threads = <<>>
    /\ heap = NoHeap
    /\ units = {}
    /\ idx = 0
    /\ stage = "none"
    /\ start_micro = 0
    /\ waited = 0
    /\ expired = {}
    /\ atStart = {}
    /\ launched = <<>>
    /\ late_result = FALSE
    /\ shutdown_calls = 0
    /\ logs_writes = 0
    /\ results = <<>>
    /\ tick_logs = <<>>
    /\ exit_status = "running"

\* ---- Engine.load ----------------------------------------------------------
\* The log directory or the game map may be missing: FileNotFoundError.
Load ==
    /\ pc = "load"
    /\ \E ok \in BOOLEAN : pc' = IF ok THEN "boot" ELSE "except"
    /\ UNCHANGED <<cfg, files, clients, tick_number, game_over, bootVars,
                   tickVars, outVars, tick_logs>>

\* ---- Engine.boot ------------------------------------------------------------
SetLast(cs, p) == [cs EXCEPT ![Len(cs)] = p]
Last(cs) == cs[Len(cs)]

\* lines 80-91: Player() and the verdict of verify_code
Validated(f, imports, opening) ==
    LET p0 == Player(f)
        p1 == IF imports
              THEN [p0 EXCEPT !.functional = FALSE,
                              !.error = Err("illegal imports", f, 0)]
              ELSE p0
    IN IF opening
       THEN [p1 EXCEPT !.functional = FALSE, !.error = Err("open", f, 0)]
       ELSE p1

\* lines 67-91 for the next client file: Player(), append, verify_code
BootClient ==
    /\ pc = "boot"
    /\ boot_i < files
    /\ \E imports \in BOOLEAN, opening \in BOOLEAN :
         clients' = Append(clients, Validated(boot_i + 1, imports, opening))
    /\ pc' = "boot_import"
    /\ UNCHANGED <<cfg, files, tick_number, game_over, bootVars, tickVars,
                   outVars, tick_logs>>

\* lines 93-110: import and instantiation, creation and start of the
\* team-name thread, join(0.01)
BootImport ==
    /\ pc = "boot_import"
    /\ LET f == boot_i + 1
           p == Last(clients) IN
       \E step \in {"import_raises", "thread_raises", "started"} :
         CASE step = "import_raises" ->
                \* lines 99-102
                /\ clients' = SetLast(clients,
                       [p EXCEPT !.functional = FALSE,
                                 !.error = Err("import traceback", f, 0)])
                /\ boot_i' = f
                /\ hs' = NoThread
                /\ pc' = "boot"
           [] step = "thread_raises" ->
                \* line 108 raises: thr is None, line 123 raises inside the
                \* finally block (lines 124-126), then lines 127-130
                /\ clients' = SetLast(clients,
                       [p EXCEPT !.functional = FALSE,
                                 !.error = Err("retrieve_value", f, 0)])
                /\ boot_i' = f
                /\ hs' = NoThread
                /\ pc' = "boot"
           [] step = "started" ->
                \* lines 108-110: the thread ends within the join or not
                /\ clients' = clients
                /\ boot_i' = boot_i
                /\ hs' \in HsOutcomes \cup {HsRunning}
                /\ pc' = "boot_alive"
    /\ UNCHANGED <<cfg, files, tick_number, game_over, tickVars, outVars, tick_logs>>

\* the team_name call ends while boot inspects its thread
HsFinish ==
    /\ pc \in {"boot_alive", "boot_error", "boot_retrieve"}
    /\ hs.state = "running"
    /\ hs' \in {[o EXCEPT !.late = hs.late] : o \in HsOutcomes}
    /\ UNCHANGED <<cfg, files, pc, clients, tick_number, game_over, boot_i,
                   tickVars, outVars, tick_logs>>

\* lines 112-114
BootCheckAlive ==
    /\ pc = "boot_alive"
    /\ clients' = IF hs.state = "running"
                  THEN SetLast(clients,
                         [Last(clients) EXCEPT !.functional = FALSE,
                            !.error = Err("team name timeout", boot_i + 1, 0)])
                  ELSE clients
    /\ pc' = "boot_error"
    /\ UNCHANGED <<cfg, files, tick_number, game_over, bootVars, tickVars,
                   outVars, tick_logs>>

\* lines 116-118
BootCheckError ==
    /\ pc = "boot_error"
    /\ clients' = IF hs.state = "raised"
                  THEN SetLast(clients,
                         [Last(clients) EXCEPT !.functional = FALSE,
                            !.error = Err("thr.error", boot_i + 1, 0)])
                  ELSE clients
    /\ pc' = "boot_retrieve"
    /\ UNCHANGED <<cfg, files, tick_number, game_over, bootVars, tickVars,
                   outVars, tick_logs>>

\* lines 119-123
BootRetrieve ==
    /\ pc = "boot_retrieve"
    /\ clients' = SetLast(clients,
                     [Last(clients) EXCEPT !.team_name = retrieve_value(hs)])
    /\ boot_i' = boot_i + 1
    /\ hs' = NoThread
    /\ pc' = "boot"
    /\ UNCHANGED <<cfg, files, tick_number, game_over, tickVars, outVars, tick_logs>>

\* lines 132-148: start bounds, then the sort
BootVerify ==
    /\ pc = "boot"
    /\ boot_i = files
    /\ IF verify_num_clients(Cardinality(func_clients(clients)),
                             cfg.start.set, cfg.start.min, cfg.start.max)
       THEN /\ shutdown("Client_error", "boot", "except")
            /\ clients' = clients
       ELSE /\ IF SortRaises(clients)
               THEN clients' = clients /\ pc' = "except"
               ELSE clients' = SortDesc(clients) /\ pc' = "loop"
            /\ UNCHANGED outVars
    /\ UNCHANGED <<cfg, files, tick_number, game_over, bootVars, tickVars, tick_logs>>

\* ---- Engine.loop -----------------------------------------------------------
\* line 43: the next value of master_controller.game_loop_logic(), or its end
LoopNext ==
    /\ pc = "loop"
    /\ \E more \in BOOLEAN : pc' = IF more THEN "pre_tick" ELSE "finally"
    /\ UNCHANGED <<cfg, files, clients, tick_number, game_over, bootVars,
                   tickVars, outVars, tick_logs>>

\* lines 51-52
LoopCheck ==
    /\ pc = "loop_check"
    /\ pc' = IF tick_number >= MAX_TICKS THEN "finally" ELSE "loop"
    /\ UNCHANGED <<cfg, files, clients, tick_number, game_over, bootVars,
                   tickVars, outVars, tick_logs>>

\* lines 53-57: the finally clause, entered at the end of the loop ("finally")
\* or from the except clause after an exception was caught ("except")
Finally ==
    /\ pc \in {"finally", "except"}
    /\ shutdown("", "returned", "crashed")
    /\ UNCHANGED <<cfg, files, clients, tick_number, game_over, bootVars,
                   tickVars, tick_logs>>

\* ---- Engine.pre_tick -------------------------------------------------------
\* pre_tick with the counter advanced twice
pre_tick_twice ==
    /\ pc = "pre_tick"
    /\ tick_number' = tick_number + 2
    /\ pc' = "tick"
    /\ late_result' = FALSE
    /\ UNCHANGED <<cfg, files, clients, game_over, bootVars, threads, heap,
                   units, idx, stage, start_micro, waited, expired, atStart,
                   launched, outVars, tick_logs>>

pre_tick ==
    /\ pc = "pre_tick"
    /\ tick_number' = tick_number + 1
    /\ pc' = "tick"
    /\ late_result' = FALSE
    /\ UNCHANGED <<cfg, files, clients, game_over, bootVars, threads, heap,
                   units, idx, stage, start_micro, waited, expired, atStart,
                   launched, outVars, tick_logs>>

\* ---- Engine.tick -----------------------------------------------------------
\* lines 186-197 without the test of client.functional
ScheduledAll(cs) == [i \in 1..Len(cs) |-> cs[i].file]

\* lines 186-197: the clients that get a Thread, in the order of self.clients
RECURSIVE Scheduled(_)
Scheduled(cs) ==
    IF cs = <<>> THEN <<>>
    ELSE IF Head(cs).functional THEN <<Head(cs).file>> \o Scheduled(Tail(cs))
         ELSE Scheduled(Tail(cs))

\* lines 210-216
time_remaining(start, now) ==
    LET time_elapsed == now - start
        remaining == MAX_SECONDS_PER_TURN - time_elapsed
    IN IF remaining > 0 THEN remaining ELSE 0

\* datetime.now().microsecond after `w` units blocked since start_time
microsecond(start, w) == (start + w) % UnitsPerSecond

\* lines 186-203: create and start the threads, take start_time
TickLaunch ==
    /\ pc = "tick"
    /\ LET owners == Scheduled(clients)
           ids == [i \in 1..Len(owners) |-> ThreadId(i, tick_number)]
           new == {ids[i] : i \in 1..Len(owners)}
           us == units \cup {[slot |-> ids[i], owner |-> owners[i],
                               tick |-> tick_number] : i \in 1..Len(owners)}
           h == [x \in DOMAIN heap \cup new |->
                    IF x \in new THEN NewThread ELSE heap[x]]
       IN /\ threads' = ids
          /\ units' = us
          /\ heap' = Live(h, ids, us)
          /\ launched' = owners
    /\ atStart' = {clients[i].file : i \in Indexes(clients) \ func_clients(clients)}
    /\ start_micro' \in 0..(UnitsPerSecond - 1)
    /\ waited' = 0
    /\ expired' = {}
    /\ idx' = 1
    /\ stage' = "none"
    /\ pc' = "join"
    /\ UNCHANGED <<cfg, files, clients, tick_number, game_over, bootVars,
                   late_result, outVars, tick_logs>>

\* The collection of the tick of invocation u is over for u: the main thread
\* is past the last statement of tick() that reads u's Thread object.
Closed(u) ==
    \/ u.tick < tick_number
    \/ pc \notin {"join", "inspect"}
    \/ pc = "inspect" /\ \A i \in Indexes(threads) : threads[i] = u.slot => i < idx

\* Thread.run of a take_turn invocation ends: it returns or raises
Finish ==
    /\ exit_status = "running"
    /\ \E u \in units :
         \E o \in RunOutcomes(u.owner, u.tick) :
           /\ units' = units \ {u}
           /\ heap' = Live([heap EXCEPT ![u.slot] = o], threads, units \ {u})
           /\ late_result' = (late_result \/ u.tick < tick_number)
    /\ UNCHANGED <<cfg, files, pc, clients, tick_number, game_over, bootVars,
                   threads, idx, stage, start_micro, waited, expired, atStart,
                   launched, outVars, tick_logs>>

\* lines 204-218 with start_time taken again after every join
Join_restamped ==
    /\ pc = "join"
    /\ idx <= Len(threads)
    /\ LET id == threads[idx]
           remaining == time_remaining(start_micro, microsecond(start_micro, waited))
       IN IF ~heap[id].alive
          THEN \* join returns at once
               UNCHANGED <<heap, units, waited, expired>>
          ELSE \/ \* the thread ends after w units of waiting
                  \E u \in {v \in units : v.slot = id}, w \in 0..remaining :
                    \E o \in RunOutcomes(u.owner, u.tick) :
                      /\ units' = units \ {u}
                      /\ heap' = [heap EXCEPT ![id] = o]
                      /\ waited' = waited + w
                      /\ expired' = expired
               \/ \* the wait expires
                  /\ waited' = waited + remaining
                  /\ expired' = expired \cup {idx}
                  /\ UNCHANGED <<heap, units>>
    /\ idx' = idx + 1
    /\ start_micro' = microsecond(start_micro, waited')
    /\ UNCHANGED <<cfg, files, pc, clients, tick_number, game_over, bootVars,
                   threads, stage, atStart, launched, late_result,
                   outVars, tick_logs>>

\* lines 204-218: one iteration of the join loop
Join ==
    /\ pc = "join"
    /\ idx <= Len(threads)
    /\ LET id == threads[idx]
           remaining == time_remaining(start_micro, microsecond(start_micro, waited))
       IN IF ~heap[id].alive
          THEN \* join returns at once
               UNCHANGED <<heap, units, waited, expired>>
          ELSE \/ \* the thread ends after w units of waiting
                  \E u \in {v \in units : v.slot = id}, w \in 0..remaining :
                    \E o \in RunOutcomes(u.owner, u.tick) :
                      /\ units' = units \ {u}
                      /\ heap' = [heap EXCEPT ![id] = o]
                      /\ waited' = waited + w
                      /\ expired' = expired
               \/ \* the wait expires
                  /\ waited' = waited + remaining
                  /\ expired' = expired \cup {idx}
                  /\ UNCHANGED <<heap, units>>
    /\ idx' = idx + 1
    /\ UNCHANGED <<cfg, files, pc, clients, tick_number, game_over, bootVars,
                   threads, stage, start_micro, atStart, launched, late_result,
                   outVars, tick_logs>>

\* line 221: the join loop is over, the inspection loop starts
Collected ==
    /\ pc = "join"
    /\ idx > Len(threads)
    /\ pc' = "inspect"
    /\ idx' = 1
    /\ stage' = "result"
    /\ start_micro' = 0
    /\ waited' = 0
    /\ UNCHANGED <<cfg, files, clients, tick_number, game_over, bootVars,
                   threads, heap, units, expired, atStart, launched, late_result,
                   outVars, tick_logs>>

\* zip(self.clients, threads): the i-th thread is paired with the i-th client
Paired(i) == i

\* line 223, with a client that delivers a result taken back into the game
load_actions_reviving(c, thr) ==
    [c EXCEPT !.actions = IF thr.result.isNone THEN <<>> ELSE thr.result.actions,
              !.functional = (c.functional \/ ~thr.result.isNone)]

\* line 223
load_actions(c, thr) ==
    [c EXCEPT !.actions = IF thr.result.isNone THEN <<>> ELSE thr.result.actions]

\* lines 226-229
check_alive(c, thr) ==
    IF thr.alive
    THEN [c EXCEPT !.functional = FALSE,
                   !.error = Err("failed to reply in time", c.file, 0)]
    ELSE c

\* lines 232-235
check_error(c, thr) ==
    IF thr.error # NoError
    THEN [c EXCEPT !.functional = FALSE, !.error = thr.error]
    ELSE c

inspectUnchanged ==
    UNCHANGED <<cfg, files, pc, tick_number, game_over, bootVars, threads, heap,
                units, start_micro, waited, expired, atStart, launched,
                late_result, outVars, tick_logs>>

\* line 223 for the idx-th pair of zip(self.clients, threads)
InspectResult ==
    /\ pc = "inspect" /\ idx <= Len(threads) /\ stage = "result"
    /\ clients' = [clients EXCEPT ![Paired(idx)] =
                      load_actions(clients[Paired(idx)], heap[threads[idx]])]
    /\ stage' = "alive"
    /\ idx' = idx
    /\ inspectUnchanged

\* lines 226-229 for the idx-th pair
InspectAlive ==
    /\ pc = "inspect" /\ idx <= Len(threads) /\ stage = "alive"
    /\ clients' = [clients EXCEPT ![Paired(idx)] =
                      check_alive(clients[Paired(idx)], heap[threads[idx]])]
    /\ stage' = "error"
    /\ idx' = idx
    /\ inspectUnchanged

\* lines 232-235 for the idx-th pair
InspectError ==
    /\ pc = "inspect" /\ idx <= Len(threads) /\ stage = "error"
    /\ clients' = [clients EXCEPT ![Paired(idx)] =
                      check_error(clients[Paired(idx)], heap[threads[idx]])]
    /\ stage' = "result"
    /\ idx' = idx + 1
    /\ inspectUnchanged

\* lines 237-250 with turn_logic consulted before the continue bounds
TickVerify_logic_first ==
    /\ pc = "inspect" /\ idx > Len(threads)
    /\ game_over' \in BOOLEAN
    /\ IF verify_num_clients(Cardinality(func_clients(clients)),
                             cfg.cont.set, cfg.cont.min, cfg.cont.max)
       THEN shutdown("Client_error", "inspect", "except")
       ELSE pc' = "post_tick" /\ UNCHANGED outVars
    /\ UNCHANGED <<cfg, files, clients, tick_number, bootVars, tickVars, tick_logs>>

\* lines 237-250: continue bounds, then master_controller.turn_logic, which
\* may set game_over or raise
TickVerify ==
    /\ pc = "inspect" /\ idx > Len(threads)
    /\ IF verify_num_clients(Cardinality(func_clients(clients)),
                             cfg.cont.set, cfg.cont.min, cfg.cont.max)
       THEN /\ shutdown("Client_error", "inspect", "except")
            /\ UNCHANGED game_over
       ELSE /\ \E raises \in BOOLEAN :
                 IF raises
                 THEN pc' = "except" /\ game_over' = game_over
                 ELSE pc' = "post_tick" /\ game_over' \in BOOLEAN
            /\ UNCHANGED outVars
    /\ UNCHANGED <<cfg, files, clients, tick_number, bootVars, tickVars, tick_logs>>

\* ---- Engine.post_tick ------------------------------------------------------
post_tick ==
    /\ pc = "post_tick"
    /\ tick_logs' = Append(tick_logs, tick_number)
    /\ IF game_over
       THEN shutdown("", "loop_check", "except")
       ELSE pc' = "loop_check" /\ UNCHANGED outVars
    \* the locals of tick() are gone
    /\ threads' = <<>>
    /\ heap' = Live(heap, <<>>, units)
    /\ idx' = 0 /\ stage' = "none"
    /\ expired' = {} /\ atStart' = {} /\ launched' = <<>>
    /\ UNCHANGED <<cfg, files, clients, tick_number, game_over, bootVars,
                   units, start_micro, waited, late_result>>

\* ---- specification ---------------------------------------------------------
Next ==
    \/ Load
    \/ BootClient
    \/ BootImport
    \/ HsFinish
    \/ BootCheckAlive
    \/ BootCheckError
    \/ BootRetrieve
    \/ BootVerify
    \/ LoopNext
    \/ pre_tick
    \/ TickLaunch
    \/ Finish
    \/ Join
    \/ Collected
    \/ InspectResult
    \/ InspectAlive
    \/ InspectError
    \/ TickVerify
    \/ post_tick
    \/ LoopCheck
    \/ Finally

Spec == Init /\ [][Next]_vars

TypeOK ==
    /\ pc \in {"load", "boot", "boot_alive", "boot_error", "boot_retrieve",
               "boot_import", "loop", "pre_tick", "tick", "join", "inspect", "post_tick",
               "loop_check", "finally", "except", "returned", "exited", "crashed"}
    /\ tick_number \in 0..MAX_TICKS
    /\ Len(clients) <= files

\* ---- properties -------------------------------------------------------------
Terminated == pc \in {"returned", "exited", "crashed"}
AfterTick == pc = "post_tick"
\* the record of the client loaded from file f
ClientOf(f) == clients[CHOOSE i \in Indexes(clients) : clients[i].file = f]
NonFunctional(f) ==
    \E i \in Indexes(clients) : clients[i].file = f /\ ~clients[i].functional
\* threads of this tick whose join returned because the thread had ended
Joined == Indexes(threads) \ expired

\* C1: the total time the engine spends blocked in the joins of one tick never
\* exceeds MAX_SECONDS_PER_TURN (the engine's own statements take no time here).
C1_BoundedWait == pc = "join" => waited <= MAX_SECONDS_PER_TURN

\* C2: a client that is non-functional stays non-functional in every step.
C2_MonotonicFunctional ==
    [][\A f \in 1..MaxClients : NonFunctional(f) => NonFunctional(f)']_vars

\* a client retired by an exception in tick 1 is still retired after tick 2
C2_Witness ==
    /\ AfterTick /\ tick_number = 2
    /\ \E i \in Indexes(clients) :
         /\ ~clients[i].functional
         /\ clients[i].error.kind = "raised" /\ clients[i].error.tick = 1

\* C3: after tick(), every client that was non-functional when the tick
\* started has an empty action sequence.
C3_SkipInvariant ==
    AfterTick =>
      \A i \in Indexes(clients) :
        clients[i].file \in atStart => clients[i].actions = <<>>

\* C4: after tick(), every client whose thread was still running when the
\* join on it expired is non-functional with the "failed to reply in time"
\* error and an empty action sequence.
C4_TimeoutAttribution ==
    AfterTick =>
      \A i \in expired :
        LET c == ClientOf(launched[i]) IN
          /\ ~c.functional
          /\ c.error.kind = "failed to reply in time"
          /\ c.actions = <<>>

\* C5: after tick(), every client whose take_turn raised is non-functional
\* with the raised error and an empty action sequence, and no client carries
\* an error raised by another client's take_turn.
C5_ExceptionAttribution ==
    /\ \A j \in Indexes(clients) :
         clients[j].error.kind = "raised" => clients[j].error.who = clients[j].file
    /\ AfterTick =>
         \A i \in Joined :
           heap[threads[i]].error # NoError =>
             LET c == ClientOf(launched[i]) IN
               /\ ~c.functional
               /\ c.error = heap[threads[i]].error
               /\ c.actions = <<>>

\* C6: the actions a client holds are always actions its own take_turn
\* produced, and after tick() every client whose take_turn ended in time
\* without raising is functional and holds exactly what that call returned.
C6_ResultAttribution ==
    /\ \A j \in Indexes(clients) :
         clients[j].actions # <<>> => clients[j].actions[1].by = clients[j].file
    /\ AfterTick =>
         \A i \in Joined :
           heap[threads[i]].error = NoError =>
             LET c == ClientOf(launched[i])
                 r == heap[threads[i]].result IN
               /\ c.functional
               /\ c.actions = IF r.isNone THEN <<>> ELSE r.actions

\* C7: a step in which a take_turn call ends after the collection of its tick
\* is over changes no client record, and whenever a client's actions or error
\* change, the new value was produced by a call launched in the current tick.
C7_LateResultDiscard ==
    [][/\ (\E u \in units \ units' : Closed(u)) => clients' = clients
       /\ \A i \in Indexes(clients) \cap Indexes(clients') :
            /\ clients'[i].actions # clients[i].actions =>
                  \/ clients'[i].actions = <<>>
                  \/ clients'[i].actions[1].tick = tick_number
            /\ (clients'[i].error # clients[i].error
                   /\ clients'[i].error.kind = "raised") =>
                  clients'[i].error.tick = tick_number]_vars

\* a call abandoned in tick 1 has ended during tick 2, whose threads have
\* been collected
C7_Witness ==
    /\ AfterTick /\ tick_number = 2
    /\ late_result
    /\ threads # <<>>

\* C8: shutdown is never invoked a second time, and when the run has ended it
\* has been invoked once and the log and results files were written once.
C8_ShutdownOnce ==
    /\ shutdown_calls <= 1
    /\ Terminated =>
         shutdown_calls = 1 /\ logs_writes = 1 /\ Len(results) = 1

\* C9: when the functional-client count after boot violates the start bounds,
\* the next step writes results with reason "Client_error" and ends the
\* process with a non-zero status, no tick having run.
C9_FatalStartViolation ==
    [][(/\ pc = "boot" /\ boot_i = files
        /\ verify_num_clients(Cardinality(func_clients(clients)),
                              cfg.start.set, cfg.start.min, cfg.start.max))
       => (/\ pc' = "exited" /\ exit_status' = "exit1"
           /\ results' = <<[reason |-> "Client_error"]>>
           /\ tick_number' = 0)]_vars

\* C10: tick_number starts at 0, only pre_tick changes it and by exactly 1,
\* threads are launched only after the increment of their tick, and the
\* turn-log writes requested so far are for ticks 1..k, one each, where k is
\* the number of completed ticks (tick_number, less 1 while a tick is running).
C10_TickCounter ==
    /\ tick_number = 0 /\ tick_logs = <<>>
    /\ [](/\ tick_logs = [k \in 1..Len(tick_logs) |-> k]
          /\ pc \in {"loop", "pre_tick", "loop_check"} => Len(tick_logs) = tick_number
          /\ pc \in {"tick", "join", "inspect", "post_tick"} =>
                Len(tick_logs) = tick_number - 1
          /\ Len(tick_logs) \in {tick_number - 1, tick_number} \cap 0..tick_number)
    /\ [][/\ tick_number' # tick_number =>
               pc = "pre_tick" /\ tick_number' = tick_number + 1
          /\ units' \ units # {} =>
               /\ tick_number' = tick_number
               /\ tick_number = Len(tick_logs) + 1
               /\ \A u \in units' \ units : u.tick = tick_number]_vars

\* two ticks completed
C10_Witness ==
    pc = "loop_check" /\ tick_number = 2 /\ tick_logs = <<1, 2>>

\* C11: tick_number never exceeds MAX_TICKS, the loop is left once it has
\* reached MAX_TICKS, and no take_turn call is launched after the controller
\* reported game-over at the end of a tick.
C11_LoopTermination ==
    /\ [](tick_number <= MAX_TICKS)
    /\ [][/\ (pc = "loop_check" /\ tick_number >= MAX_TICKS) => pc' = "finally"
          /\ units' \ units # {} => ~game_over]_vars

\* positions of the main thread inside boot()
BootPcs == {"boot", "boot_import", "boot_alive", "boot_error", "boot_retrieve"}
\* errors that name a verdict of the validator
VerdictKinds == {"illegal imports", "open"}

\* C12: a client that the validator has marked (disallowed imports or use of
\* open) stays non-functional with that same error in every later step of
\* boot, so it still carries it when boot finishes.
C12_ValidationVerdict ==
    [][\A i \in Indexes(clients) :
         (pc \in BootPcs /\ clients[i].error.kind \in VerdictKinds) =>
            \E j \in Indexes(clients') :
               /\ clients'[j].file = clients[i].file
               /\ ~clients'[j].functional
               /\ clients'[j].error = clients[i].error]_vars

\* C13: when boot has finished with a client whose team_name call was still
\* running when join(0.01) returned, or raised, that client is non-functional,
\* its error is the time-out message or the captured error, and it has no
\* team name.
C13_HandshakeFailure ==
    [][(pc = "boot_retrieve" /\ pc' = "boot"
           /\ (hs.late \/ hs.state = "raised")) =>
         LET c == Last(clients') IN
           /\ ~c.functional
           /\ c.error.kind \in {"team name timeout", "thr.error"}
           /\ c.team_name = NoName]_vars

\* C14: after loop() has caught an exception, the shutdown call of the finally
\* clause runs to completion: it writes the aggregate log and the results
\* file and returns, and the run never ends by an exception leaving loop().
C14_ExceptionShutdown ==
    /\ [](pc # "crashed")
    /\ [][(pc = "except" /\ pc' # pc) =>
            /\ pc' = "returned"
            /\ logs_writes' = logs_writes + 1
            /\ Len(results') = Len(results) + 1]_vars

\* the statements of boot() and tick() that handle one client at a time
PerClient ==
    \/ pc \in BootPcs /\ ~(pc = "boot" /\ boot_i = files)
    \/ pc = "join"
    \/ pc = "inspect" /\ idx <= Len(threads)
StartBoundsMet ==
    ~verify_num_clients(Cardinality(func_clients(clients)),
                        cfg.start.set, cfg.start.min, cfg.start.max)
ContinueBoundsMet ==
    ~verify_num_clients(Cardinality(func_clients(clients)),
                        cfg.cont.set, cfg.cont.min, cfg.cont.max)

\* C15: the per-client statements of boot and tick never raise and never shut
\* the engine down; when boot ends with the start bounds met the engine
\* enters the tick loop, and when the outcomes of a tick have been applied
\* with the continue bounds met the engine goes on to the controller's turn
\* logic without shutting down.
C15_ClientScopedFailures ==
    [][/\ PerClient =>
            /\ pc' \in BootPcs \cup {"join", "inspect"}
            /\ shutdown_calls' = shutdown_calls
       /\ (pc = "boot" /\ boot_i = files /\ StartBoundsMet) =>
            pc' = "loop" /\ shutdown_calls' = shutdown_calls
       /\ (pc = "inspect" /\ idx > Len(threads) /\ pc' # pc /\ ContinueBoundsMet) =>
            pc' \in {"post_tick", "except"} /\ shutdown_calls' = shutdown_calls]_vars

\* the next statement of the main thread is shutdown(source='Client_error')
FatalCall ==
    \/ pc = "boot" /\ boot_i = files /\ ~StartBoundsMet
    \/ pc = "inspect" /\ idx > Len(threads) /\ ~ContinueBoundsMet

\* C16: every write of the results file adds one document, which has the
\* reason "Client_error" exactly when shutdown was called with that source;
\* results with a reason are the last ones written and the process has ended.
C16_ReasonField ==
    /\ [](\A k \in 1..Len(results) :
             results[k].reason # "" =>
                /\ results[k].reason = "Client_error"
                /\ k = Len(results)
                /\ pc = "exited" /\ exit_status = "exit1")
    /\ [][results' # results =>
            /\ Len(results') = Len(results) + 1
            /\ SubSeq(results', 1, Len(results)) = results
            /\ (results'[Len(results')].reason = "Client_error") <=> FatalCall
            /\ (results'[Len(results')].reason = "") <=> ~FatalCall]_vars

\* the game-over shutdown of tick 1 wrote results without a reason, then the
\* continue bounds failed in tick 2 and the fatal shutdown wrote the reason
C16_Witness ==
    /\ pc = "exited" /\ tick_number = 2
    /\ Len(results) = 2
    /\ results[1].reason = "" /\ results[2].reason = "Client_error"

\* C17: whenever take_turn threads are started, it is in tick(), exactly one
\* is started for each client that is functional at that moment, none for a
\* non-functional client, and each runs for the current tick.
C17_Scheduling ==
    [][units' \ units # {} =>
         LET new == units' \ units IN
           /\ pc = "tick"
           /\ Len(threads') = Cardinality(func_clients(clients))
           /\ \A i \in Indexes(clients) :
                Cardinality({u \in new : u.owner = clients[i].file}) =
                   IF clients[i].functional THEN 1 ELSE 0
           /\ \A u \in new :
                /\ u.tick = tick_number
                /\ \E i \in Indexes(clients) : clients[i].file = u.owner]_vars

\* tick 2 has started one thread, for the client that is still functional,
\* and none for the client retired by an exception in tick 1
C17_Witness ==
    /\ pc = "join" /\ tick_number = 2
    /\ Len(clients) = 2 /\ Len(threads) = 1
    /\ \E i \in Indexes(clients) :
         /\ ~clients[i].functional
         /\ clients[i].error.kind = "raised" /\ clients[i].error.tick = 1
         /\ \A u \in units : u.tick = 2 => u.owner # clients[i].file

\* the main thread is at line 237: every pair of the inspection loop is done
AtGate == pc = "inspect" /\ idx > Len(threads)

\* C18: in a tick the fatal shutdown and the controller's turn logic happen
\* only at the gate, after the inspection loop; a violation of the continue
\* bounds ends the process with reason "Client_error" without turn logic,
\* turn log or game-over check of that tick; with no violation the gate
\* changes no client record and writes nothing.
C18_ContinueGate ==
    /\ [](pc = "exited" /\ tick_number > 0 => Len(tick_logs) = tick_number - 1)
    /\ [][/\ (tick_number > 0 /\ results' # results
                 /\ results'[Len(results')].reason = "Client_error") => AtGate
          /\ game_over' # game_over => AtGate /\ ContinueBoundsMet
          /\ (AtGate /\ pc' # pc /\ ~ContinueBoundsMet) =>
                /\ pc' = "exited" /\ exit_status' = "exit1"
                /\ results' = Append(results, [reason |-> "Client_error"])
                /\ game_over' = game_over
                /\ tick_logs' = tick_logs
                /\ clients' = clients
          /\ (AtGate /\ pc' # pc /\ ContinueBoundsMet) =>
                /\ clients' = clients
                /\ tick_logs' = tick_logs
                /\ UNCHANGED outVars]_vars

\* tick 1 left too few functional clients: fatal shutdown, no turn log
C18_Witness ==
    /\ pc = "exited" /\ tick_number = 1
    /\ results = <<[reason |-> "Client_error"]>>
    /\ tick_logs = <<>> /\ ~game_over
    /\ \E i \in Indexes(clients) : ~clients[i].functional /\ clients[i].error.tick = 1

\* C19: the threads of a tick are all started in the step that takes
\* start_time, before any join; from the first join to the last the value of
\* start_time and the list of threads stay the same and no thread is started.
C19_BatchSingleDeadline ==
    [][/\ units' \ units # {} =>
            /\ pc = "tick" /\ pc' = "join"
            /\ idx' = 1 /\ waited' = 0
            /\ {u.slot : u \in units' \ units} = {threads'[i] : i \in Indexes(threads')}
       /\ (pc = "join" /\ pc' = "join") =>
            /\ start_micro' = start_micro
            /\ threads' = threads
            /\ units' \subseteq units
       /\ start_micro' # start_micro =>
            pc = "tick" \/ (pc = "join" /\ idx > Len(threads))]_vars

\* the second join of a tick, after the first one has blocked for a while,
\* with the reference taken at launch
C19_Witness ==
    /\ pc = "join" /\ idx = 2 /\ Len(threads) = 2
    /\ waited = 1 /\ start_micro = 1
    /\ \A i \in Indexes(threads) : heap[threads[i]].alive

====
